---- MODULE Spec2Model ----
(***************************************************************************)
(* A model of the valedate harness (src/valedate/harness.py): the sandbox  *)
(* lifecycle of class Valedate, the process driver _run, the configuration *)
(* normaliser and the diagnostic decoder.                                  *)
(*                                                                         *)
(* Conventions.                                                            *)
(*  - Python None is the string None ("<None>"); Python strings are TLA+   *)
(*    strings drawn from small sets that never contain "<None>".           *)
(*  - A configuration text is the sequence of its lines.  A line is a      *)
(*    record: a blank (whitespace-only) line, a "key = value" line with    *)
(*    optional leading whitespace, a bracketed section header, or a        *)
(*    comment.                                                             *)
(*  - A parsed JSON value is a tagged record [t, v]; an object keeps its   *)
(*    members as a sequence of <<key, value>> pairs in document order,     *)
(*    as a Python dict does.                                               *)
(***************************************************************************)
EXTENDS Integers, Sequences, FiniteSets, TLC

None == "<None>"

(***************************************************************************)
(* Bounds of the model.                                                    *)
(***************************************************************************)
MaxCleanups == 3
MaxFiles == 2
MaxAlerts == 2
MaxIniLines == 3

MaxStyleEntries == 2

(***************************************************************************)
(* Program constants.                                                      *)
(***************************************************************************)
_VALE_RUNTIME_FAILURE_EXIT == 2

(***************************************************************************)
(* Python truthiness of an optional string, and the `or` operator.         *)
(***************************************************************************)
Truthy(s) == s # None /\ s # ""

\* The operands of `or` the wrong way round: the default wins over the override.
PyOr_Swapped(a, b) == IF Truthy(b) THEN b ELSE a

PyOr(a, b) == IF Truthy(a) THEN a ELSE b

(***************************************************************************)
(* Configuration text: lines.                                              *)
(***************************************************************************)
BlankLine == [k |-> "blank", ind |-> FALSE, key |-> "", val |-> <<>>]

KV(ind, key, val) == [k |-> "kv", ind |-> ind, key |-> key, val |-> val]

Header(name) == [k |-> "hdr", ind |-> FALSE, key |-> name, val |-> <<>>]

CommentLine == [k |-> "comment", ind |-> FALSE, key |-> "#", val |-> <<>>]

\* r"(?m)^\s*StylesPath\s*=.*$": the key is spelled exactly StylesPath; the
\* pattern carries the flag m only, so the match is case-sensitive.
StylesPathPattern(line) == line.k = "kv" /\ line.key = "StylesPath"

\* r"(?m)^\s*Packages\s*="
PackagesPattern(line) == line.k = "kv" /\ line.key = "Packages"

\* A match of ^\s*KEY\s*=.*$ that starts at the beginning of line i: \s also
\* matches newlines, so the match runs over any blank lines that precede the
\* directive line.  The index of the directive line, or 0 when there is no
\* match starting at line i.
RECURSIVE MatchEnd(_, _)
MatchEnd(text, i) ==
    IF i > Len(text) THEN 0
    ELSE IF StylesPathPattern(text[i]) THEN i
    ELSE IF text[i].k = "blank" THEN MatchEnd(text, i + 1)
    ELSE 0

re_search_styles(text) == \E i \in 1..Len(text) : MatchEnd(text, i) # 0

\* re.sub: every non-overlapping leftmost match is replaced by repl.
RECURSIVE re_sub_styles(_, _, _)
re_sub_styles(text, i, repl) ==
    IF i > Len(text) THEN <<>>
    ELSE LET j == MatchEnd(text, i)
         IN  IF j # 0 THEN <<repl>> \o re_sub_styles(text, j + 1, repl)
             ELSE <<text[i]>> \o re_sub_styles(text, i + 1, repl)

_force_styles_path(ini_text, styles_dirname) ==
    LET directive == KV(FALSE, "StylesPath", <<styles_dirname>>)
    IN  IF re_search_styles(ini_text)
        THEN re_sub_styles(ini_text, 1, directive)
        ELSE <<directive>> \o ini_text

DeclaresPackages(ini_text) == \E i \in 1..Len(ini_text) : PackagesPattern(ini_text[i])

(***************************************************************************)
(* Config Normalizer.  A structured mapping is a sequence of               *)
(* <<section, body>> entries in mapping order.  A section key is           *)
(* [name, br]: the string "[name]" when br, the string name otherwise.     *)
(* A body is [isMap, items]: items are <<key, value>> pairs, a value is    *)
(* [list, items] (a list or tuple of strings, or one string).              *)
(***************************************************************************)
Ok(text) == [err |-> "none", arg |-> None, text |-> text]

Raise(err, arg) == [err |-> err, arg |-> arg, text |-> <<>>]

\* ", ".join(map(str, value)) for a list or tuple, str(value) otherwise: the
\* rendered value is kept as the sequence of the joined items.
Rendered(value) == value.items

_emit_section(lines, body) ==
    lines \o [i \in 1..Len(body.items) |->
                KV(FALSE, body.items[i][1], Rendered(body.items[i][2]))]

IsRootKey(section) == ~section.br /\ section.name \in {"__root__", "top"}

HasKey(mapping, name) ==
    \E i \in 1..Len(mapping) : ~mapping[i][1].br /\ mapping[i][1].name = name

Lookup(mapping, name) ==
    mapping[CHOOSE i \in 1..Len(mapping) :
                ~mapping[i][1].br /\ mapping[i][1].name = name][2]

EmptyBody == [isMap |-> TRUE, items |-> <<>>]

\* mapping.get("__root__", mapping.get("top", {}))
RootOf(mapping) ==
    IF HasKey(mapping, "__root__") THEN Lookup(mapping, "__root__")
    ELSE IF HasKey(mapping, "top") THEN Lookup(mapping, "top")
    ELSE EmptyBody

\* The loop over mapping.items(): the lines so far, or the error raised.
RECURSIVE RenderSections(_, _, _)
RenderSections(mapping, i, lines) ==
    IF i > Len(mapping) THEN Ok(lines)
    ELSE LET section == mapping[i][1]
             body == mapping[i][2]
         IN  IF IsRootKey(section) THEN RenderSections(mapping, i + 1, lines)
             ELSE IF body.isMap
                  THEN RenderSections(mapping, i + 1,
                         _emit_section(lines \o <<BlankLine, Header(section.name)>>, body))
                  ELSE Raise("InvalidIniSectionError", section.name)

\* str.strip() on the joined text: leading and trailing blank lines go.
RECURSIVE StripLeft(_)
StripLeft(lines) ==
    IF lines # <<>> /\ Head(lines).k = "blank" THEN StripLeft(Tail(lines)) ELSE lines

RECURSIVE StripRight(_)
StripRight(lines) ==
    IF lines # <<>> /\ lines[Len(lines)].k = "blank"
    THEN StripRight(SubSeq(lines, 1, Len(lines) - 1))
    ELSE lines

Strip(lines) == StripRight(StripLeft(lines))

_render_mapping_ini(mapping) ==
    LET root == RootOf(mapping)
        first == IF root.isMap THEN _emit_section(<<>>, root) ELSE <<>>
        r == RenderSections(mapping, 1, first)
    IN  IF r.err # "none" THEN r
        ELSE IF Strip(r.text) = <<>> THEN Ok(<<BlankLine>>)
        ELSE Ok(Strip(r.text))

\* An ini argument: [kind, text, exists, file, mapping].  kind "str" is a
\* string (text: its contents read as configuration; exists, file: whether
\* it names an existing file, and that file's contents), "pathlike" an
\* os.PathLike, "mapping" a Mapping, "other" any other object.
_read_ini_from_text_or_path(ini) == IF ini.exists THEN Ok(ini.file) ELSE Ok(ini.text)

_read_ini_from_pathlike(ini) ==
    IF ini.exists THEN Ok(ini.file) ELSE Raise("FileNotFoundError", None)

_as_ini_text(ini) ==
    CASE ini.kind = "str" -> _read_ini_from_text_or_path(ini)
      [] ini.kind = "pathlike" -> _read_ini_from_pathlike(ini)
      [] ini.kind = "mapping" -> _render_mapping_ini(ini.mapping)
      [] OTHER -> Raise("UnsupportedIniInputError", None)

(***************************************************************************)
(* Diagnostic Decoder.  Parsed JSON values.                                *)
(***************************************************************************)
JNull == [t |-> "null", v |-> <<>>]

JStr(s) == [t |-> "str", v |-> <<s>>]

JNum(n) == [t |-> "num", v |-> <<n>>]

JArr(elems) == [t |-> "arr", v |-> elems]

JObj(members) == [t |-> "obj", v |-> members]

ObjHas(o, key) == \E i \in 1..Len(o.v) : o.v[i][1] = key

ObjGet(o, key) == o.v[CHOOSE i \in 1..Len(o.v) : o.v[i][1] = key][2]

IsStr(x) == x.t = "str"

IsInt(x) == x.t = "num"

\* A field typed T | None with default None: absent, null, or a value whose
\* JSON type is in tags.
OptionalOk(o, key, tags) ==
    ObjHas(o, key) => ObjGet(o, key).t \in (tags \cup {"null"})

OptionalVal(o, key) ==
    IF ObjHas(o, key) /\ ObjGet(o, key).t # "null" THEN ObjGet(o, key).v[1] ELSE None

IsSpan(x) == x.t = "arr" /\ Len(x.v) = 2 /\ \A i \in 1..2 : IsInt(x.v[i])

IsStrList(x) == x.t = "arr" /\ \A i \in 1..Len(x.v) : IsStr(x.v[i])

\* class ValeAction: Name and Params, both optional.
IsAction(x) ==
    /\ x.t = "obj"
    /\ OptionalOk(x, "Name", {"str"})
    /\ OptionalOk(x, "Params", {"arr"})
    /\ (ObjHas(x, "Params") /\ ObjGet(x, "Params").t = "arr") => IsStrList(ObjGet(x, "Params"))

NoAction == [present |-> FALSE, name |-> None, hasParams |-> FALSE, params |-> <<>>]

ValeAction(x) ==
    [present |-> TRUE,
     name |-> OptionalVal(x, "Name"),
     hasParams |-> ObjHas(x, "Params") /\ ObjGet(x, "Params").t # "null",
     params |-> IF ObjHas(x, "Params") /\ ObjGet(x, "Params").t # "null"
                THEN [i \in 1..Len(ObjGet(x, "Params").v) |-> ObjGet(x, "Params").v[i].v[1]]
                ELSE <<>>]

\* msgspec.convert accepts an alert object: the three required fields are
\* strings, every optional field is absent, null or of its type.
AlertOk(a) ==
    /\ a.t = "obj"
    /\ \A key \in {"Check", "Message", "Severity"} :
          ObjHas(a, key) /\ IsStr(ObjGet(a, key))
    /\ OptionalOk(a, "Line", {"num"})
    /\ (ObjHas(a, "Span") => IsSpan(ObjGet(a, "Span")))
    /\ OptionalOk(a, "Link", {"str"})
    /\ OptionalOk(a, "Description", {"str"})
    /\ OptionalOk(a, "Match", {"str"})
    /\ OptionalOk(a, "Action", {"obj"})
    /\ (ObjHas(a, "Action") /\ ObjGet(a, "Action").t = "obj") => IsAction(ObjGet(a, "Action"))

\* class ValeDiagnostic: the typed record, with the defaults of its fields.
ValeDiagnostic(a) ==
    [check |-> ObjGet(a, "Check").v[1],
     message |-> ObjGet(a, "Message").v[1],
     severity |-> ObjGet(a, "Severity").v[1],
     line |-> OptionalVal(a, "Line"),
     span |-> IF ObjHas(a, "Span")
              THEN <<ObjGet(a, "Span").v[1].v[1], ObjGet(a, "Span").v[2].v[1]>>
              ELSE <<"0", "0">>,
     link |-> OptionalVal(a, "Link"),
     description |-> OptionalVal(a, "Description"),
     match |-> OptionalVal(a, "Match"),
     action |-> IF ObjHas(a, "Action") /\ ObjGet(a, "Action").t # "null"
                THEN ValeAction(ObjGet(a, "Action"))
                ELSE NoAction]

\* A decoder outcome: the error raised ("none" when it returns) and the
\* mapping returned, a sequence of <<path, diagnostics>> in insertion order.
Decoded(map) == [err |-> "none", map |-> map]

DecodeError(err) == [err |-> err, map |-> <<>>]

\* _to_alerts: msgspec.convert(seq, type=list[ValeDiagnostic]).
ToAlertsOk(seq) == seq.t = "arr" /\ \A i \in 1..Len(seq.v) : AlertOk(seq.v[i])

_to_alerts(seq) == [i \in 1..Len(seq.v) |-> ValeDiagnostic(seq.v[i])]

\* str(x) of a parsed JSON value.
PyStr(x) ==
    CASE x.t = "str" -> x.v[1]
      [] x.t = "num" -> x.v[1]
      [] x.t = "null" -> "None"
      [] OTHER -> "<repr>"

\* output[path] = alerts on a dict: an existing key keeps its place.
DictSet(d, key, val) ==
    IF \E i \in 1..Len(d) : d[i][1] = key
    THEN [i \in 1..Len(d) |-> IF d[i][1] = key THEN <<key, val>> ELSE d[i]]
    ELSE Append(d, <<key, val>>)

\* case dict(): {str(path): _to_alerts(alerts) for path, alerts in value.items()}
RECURSIVE DecodeObject(_, _, _)
DecodeObject(value, i, output) ==
    IF i > Len(value.v) THEN Decoded(output)
    ELSE IF ~ToAlertsOk(value.v[i][2]) THEN DecodeError("ValidationError")
    ELSE DecodeObject(value, i + 1,
                      DictSet(output, value.v[i][1], _to_alerts(value.v[i][2])))

\* case [dict() as first, *_] if {"Path", "Alerts"} <= set(first): the loop
\* subscripts every element, object or not.
RECURSIVE DecodeFileArray(_, _, _)
DecodeFileArray(value, i, output) ==
    IF i > Len(value.v) THEN Decoded(output)
    ELSE LET file_obj == value.v[i]
         IN  IF file_obj.t # "obj" THEN DecodeError("TypeError")
             ELSE IF ~ObjHas(file_obj, "Path") \/ ~ObjHas(file_obj, "Alerts")
                  THEN DecodeError("KeyError")
             ELSE IF ~ToAlertsOk(ObjGet(file_obj, "Alerts"))
                  THEN DecodeError("ValidationError")
             ELSE DecodeFileArray(value, i + 1,
                    DictSet(output, PyStr(ObjGet(file_obj, "Path")),
                            _to_alerts(ObjGet(file_obj, "Alerts"))))

IsFileArray(value) ==
    /\ value.t = "arr"
    /\ Len(value.v) >= 1
    /\ value.v[1].t = "obj"
    /\ ObjHas(value.v[1], "Path")
    /\ ObjHas(value.v[1], "Alerts")

\* The match statement without its second case: every array is a bare array.
DecodeValue_NoFileShape(value) ==
    CASE value.t = "obj" -> DecodeObject(value, 1, <<>>)
      [] value.t = "arr" ->
            IF ToAlertsOk(value)
            THEN Decoded(<<<<"<stdin>", _to_alerts(value)>>>>)
            ELSE DecodeError("ValidationError")
      [] OTHER -> Decoded(<<>>)

\* The match statement without its last case: any other value is converted
\* as an alert list.
DecodeValue_NoDefault(value) ==
    CASE value.t = "obj" -> DecodeObject(value, 1, <<>>)
      [] IsFileArray(value) -> DecodeFileArray(value, 1, <<>>)
      [] OTHER ->
            IF ToAlertsOk(value)
            THEN Decoded(<<<<"<stdin>", _to_alerts(value)>>>>)
            ELSE DecodeError("ValidationError")

\* The match statement of _decode_vale_json on the parsed value.
DecodeValue(value) ==
    CASE value.t = "obj" -> DecodeObject(value, 1, <<>>)
      [] IsFileArray(value) -> DecodeFileArray(value, 1, <<>>)
      [] value.t = "arr" /\ ~IsFileArray(value) ->
            IF ToAlertsOk(value)
            THEN Decoded(<<<<"<stdin>", _to_alerts(value)>>>>)
            ELSE DecodeError("ValidationError")
      [] OTHER -> Decoded(<<>>)

(***************************************************************************)
(* Process Driver.  Bytes are sequences of byte tokens; "xFF" is a byte    *)
(* that is not valid UTF-8.  A standard output is one JSON document token  *)
(* or undecodable bytes.                                                   *)
(***************************************************************************)
\* bytes.decode("utf-8", "replace")
Utf8Replace(bytes) ==
    [i \in 1..Len(bytes) |-> IF bytes[i] = "xFF" THEN "U+FFFD" ELSE bytes[i]]

Flag(name) == [flag |-> name, val |-> None]

Opt(name, val) == [flag |-> name, val |-> val]

SandboxRoot == "/tmp/valedate-x"

IniPath == "/tmp/valedate-x/.vale.ini"

\* The outcome of an operation: the error raised ("none" when it returns),
\* the fields an error carries, and the value returned.
Returned(ret) ==
    [raised |-> "none", exit_code |-> 0, stderr |-> <<>>, ret |-> ret]

Raised(type) ==
    [raised |-> type, exit_code |-> 0, stderr |-> <<>>, ret |-> <<>>]

ValeExecutionError(exit_code, stderr) ==
    [raised |-> "ValeExecutionError", exit_code |-> exit_code,
     stderr |-> stderr, ret |-> <<>>]

\* The exit-code test with > for >=: exit code 2 passes as success.
_run_StrictlyAbove(proc) ==
    IF proc.returncode > _VALE_RUNTIME_FAILURE_EXIT
    THEN ValeExecutionError(proc.returncode, Utf8Replace(proc.stderr))
    ELSE Returned(Utf8Replace(proc.stdout))

\* Valedate._run after subprocess.run returned proc = [returncode, stdout,
\* stderr]: the exit-code test and the decoding.
_run(proc) ==
    IF proc.returncode >= _VALE_RUNTIME_FAILURE_EXIT
    THEN ValeExecutionError(proc.returncode, Utf8Replace(proc.stderr))
    ELSE Returned(Utf8Replace(proc.stdout))

\* cmd = [self.vale_bin, f"--config={self.ini_path}", *args]
Cmd(hs, args) == <<Flag(hs.vale_bin), Opt("--config", hs.ini_path)>> \o args

(***************************************************************************)
(* The alerts and documents the external tool prints in this model.        *)
(***************************************************************************)
Alert(check, severity, line) ==
    JObj(<<<<"Check", JStr(check)>>, <<"Message", JStr("Avoid 'foo'.")>>,
           <<"Severity", JStr(severity)>>, <<"Line", JNum(line)>>,
           <<"Span", JArr(<<JNum("1"), JNum("3")>>)>>>>)

WarnAlert == Alert("Test.NoFoo", "warning", "1")

ErrorAlert == Alert("Test.NoBar", "error", "2")

\* msgspec.json.decode on the decoded standard output: the documents.
Documents ==
    [x \in {"doc:none", "doc:warn", "doc:error", "doc:bare"} |->
        CASE x = "doc:none" -> JObj(<<>>)
          [] x = "doc:warn" -> JObj(<<<<"stdin.md", JArr(<<WarnAlert>>)>>>>)
          [] x = "doc:error" -> JObj(<<<<"stdin.md", JArr(<<ErrorAlert>>)>>>>)
          [] x = "doc:bare" -> JArr(<<WarnAlert, ErrorAlert>>)]

_decode_vale_json(stdout) ==
    IF Len(stdout) = 1 /\ stdout[1] \in DOMAIN Documents
    THEN DecodeValue(Documents[stdout[1]])
    ELSE DecodeError("DecodeError")

SeverityRank(level) ==
    CASE level = "suggestion" -> 0
      [] level = "warning" -> 1
      [] level = "error" -> 2
      [] OTHER -> 0

\* The lowest severity among the alerts of each document.
DocFloor ==
    [x \in {"doc:none", "doc:warn", "doc:error", "doc:bare"} |->
        CASE x = "doc:none" -> "error"
          [] x = "doc:warn" -> "warning"
          [] x = "doc:error" -> "error"
          [] x = "doc:bare" -> "warning"]

\* The floor an invocation passes with --minAlertLevel, None without one.
FloorOf(cmd) ==
    IF \E i \in 1..Len(cmd) : cmd[i].flag = "--minAlertLevel"
    THEN cmd[CHOOSE i \in 1..Len(cmd) : cmd[i].flag = "--minAlertLevel"].val
    ELSE None

\* The external tool prints no alert below the floor it was given.
RespectsFloor(stdout, cmd) ==
    \A i \in 1..Len(stdout) :
        stdout[i] \in DOMAIN DocFloor =>
            SeverityRank(DocFloor[stdout[i]]) >= SeverityRank(FloorOf(cmd))

Proc(returncode, stdout, stderr) ==
    [returncode |-> returncode, stdout |-> stdout, stderr |-> stderr]

\* What subprocess.run returns in this model: exit codes below, at and above
\* the failure threshold, a process killed by a signal, undecodable output.
ProcSamples ==
    { Proc(0, <<"doc:none">>, <<>>),
      Proc(0, <<"doc:warn">>, <<"E100">>),
      Proc(1, <<"doc:bare">>, <<>>),
      Proc(1, <<"doc:error">>, <<>>),
      Proc(0, <<"xFF">>, <<>>),
      Proc(-9, <<"doc:none">>, <<"E100">>),
      Proc(2, <<"doc:warn">>, <<"E100", "xFF">>),
      Proc(3, <<"doc:none">>, <<"E100">>) }

ProcResults(cmd) == {p \in ProcSamples : RespectsFloor(p.stdout, cmd)}

(***************************************************************************)
(* Style Materializer.  A styles argument is [kind, entries]: kind "none", *)
(* "mapping" (entries: <<rel_path, contents>> pairs, contents [type,       *)
(* data]), "missing" (a Path that does not exist), "file" (a Path to a     *)
(* regular file), "dir" (a directory whose files are entries) or "other".  *)
(* A rel_path is the sequence of the segments its "/" separate.  A place   *)
(* on disk is the sequence of names from the filesystem root; a tree is    *)
(* [dirs, files]: the directories, and the files as <<place, bytes>>.      *)
(***************************************************************************)
\* self.root / "styles"
StylesDir == <<"tmp", "valedate-x", "styles">>

Tree(dirs, files) == [dirs |-> dirs, files |-> files]

\* The disk when _populate_styles is called: the sandbox and styles_dir exist.
EmptyStyles == Tree({SubSeq(StylesDir, 1, n) : n \in 0..Len(StylesDir)}, {})

\* write_text(contents, encoding="utf-8") and write_bytes(contents)
FileBytes(contents) ==
    IF contents.type = "str" THEN <<"utf8", contents.data>> ELSE <<"raw", contents.data>>

WriteFile(files, path, bytes) ==
    {f \in files : f[1] # path} \cup {<<path, bytes>>}

\* Path(rel_path).parts: empty and "." segments are dropped, ".." is kept.
IsPart(segment) == segment \notin {"", "."}

Parts(rel_path) == SelectSeq(rel_path, IsPart)

\* PurePath.parent: the path without its last part.
Parent(path) == IF path = <<>> THEN <<>> ELSE SubSeq(path, 1, Len(path) - 1)

IsFile(tree, place) == \E f \in tree.files : f[1] = place

\* Path.mkdir(parents=True, exist_ok=True) on the parts path[i..], walked from
\* the directory cur as the operating system walks them: ".." steps to the
\* parent directory, a missing directory is created, and a regular file in
\* the way raises an OSError (FileExistsError or NotADirectoryError).  at is
\* the directory the path names.
RECURSIVE mkdir(_, _, _, _)
mkdir(tree, path, i, cur) ==
    IF i > Len(path) THEN [err |-> "none", tree |-> tree, at |-> cur]
    ELSE IF path[i] = ".." THEN mkdir(tree, path, i + 1, Parent(cur))
    ELSE LET next == Append(cur, path[i])
         IN  IF IsFile(tree, next)
             THEN [err |-> "OSError", tree |-> tree, at |-> cur]
             ELSE mkdir([tree EXCEPT !.dirs = @ \cup {next}], path, i + 1, next)

\* One pass of the loop of _materialise_tree: destination = root / rel_path,
\* its parent is made, then the contents are written by their type.
MaterialiseOne(tree, root, rel_path, contents) ==
    LET destination == root \o Parts(rel_path)
        made == mkdir(tree, Parent(destination), 1, <<>>)
        name == destination[Len(destination)]
        place == IF name = ".." THEN Parent(made.at) ELSE Append(made.at, name)
    IN  IF made.err # "none" THEN [err |-> made.err, tree |-> made.tree]
        ELSE IF contents.type \notin {"str", "bytes"}
        THEN [err |-> "TypeError", tree |-> made.tree]
        ELSE IF place \in made.tree.dirs
        THEN [err |-> "IsADirectoryError", tree |-> made.tree]
        ELSE [err |-> "none",
              tree |-> [made.tree EXCEPT !.files = WriteFile(@, place, FileBytes(contents))]]

RECURSIVE _materialise_tree(_, _, _, _)
_materialise_tree(tree, root, mapping, i) ==
    IF i > Len(mapping) THEN [err |-> "none", tree |-> tree]
    ELSE LET r == MaterialiseOne(tree, root, mapping[i][1], mapping[i][2])
         IN  IF r.err # "none" THEN r
             ELSE _materialise_tree(r.tree, root, mapping, i + 1)

\* The loop of _copy_styles_into over the regular files of styles:
\* shutil.copy2(item, dst / item.name).
RECURSIVE CopyAll(_, _, _, _)
CopyAll(files, dst, entries, i) ==
    IF i > Len(entries) THEN files
    ELSE CopyAll(WriteFile(files, Append(dst, entries[i][1]), entries[i][2]),
                 dst, entries, i + 1)

_copy_styles_into(tree, dst, styles) ==
    CASE styles.kind = "missing" -> [err |-> "StylesTreeMissingError", tree |-> tree]
      [] styles.kind = "file" -> [err |-> "StylesTreeTypeError", tree |-> tree]
      [] OTHER -> [err |-> "none",
                   tree |-> [tree EXCEPT !.files = CopyAll(@, dst, styles.entries, 1)]]

_populate_styles(tree, styles_dir, styles) ==
    CASE styles.kind = "mapping" -> _materialise_tree(tree, styles_dir, styles.entries, 1)
      [] styles.kind \in {"missing", "file", "dir"} -> _copy_styles_into(tree, styles_dir, styles)
      [] styles.kind = "none" -> [err |-> "none", tree |-> tree]
      [] OTHER -> [err |-> "TypeError", tree |-> tree]

(***************************************************************************)
(* Inputs of the constructor.                                              *)
(***************************************************************************)
NoMapping == <<>>

IniArg(kind, text, exists, file, mapping) ==
    [kind |-> kind, text |-> text, exists |-> exists, file |-> file, mapping |-> mapping]

Sec(name, br) == [name |-> name, br |-> br]

Body(items) == [isMap |-> TRUE, items |-> items]

NotABody == [isMap |-> FALSE, items |-> <<>>]

Scalar(x) == [list |-> FALSE, items |-> <<x>>]

ListOf(xs) == [list |-> TRUE, items |-> xs]

\* The configuration of the tests: src/tests/test_harness.py, _ini().
TestIni ==
    <<<<Sec("__root__", FALSE), Body(<<<<"MinAlertLevel", Scalar("suggestion")>>>>)>>,
      <<Sec("*.md", TRUE), Body(<<<<"BasedOnStyles", Scalar("Test")>>>>)>>>>

IniSamples ==
    { IniArg("str", <<KV(FALSE, "MinAlertLevel", <<"suggestion">>)>>, FALSE, <<>>, NoMapping),
      IniArg("str", <<KV(TRUE, "StylesPath", <<"elsewhere">>),
                      KV(FALSE, "Packages", <<"Microsoft">>)>>, FALSE, <<>>, NoMapping),
      IniArg("pathlike", <<>>, TRUE,
             <<KV(FALSE, "Packages", <<"Microsoft">>)>>, NoMapping),
      IniArg("pathlike", <<>>, FALSE, <<>>, NoMapping),
      IniArg("mapping", <<>>, FALSE, <<>>, TestIni),
      IniArg("mapping", <<>>, FALSE, <<>>, <<<<Sec("*.md", FALSE), NotABody>>>>),
      IniArg("other", <<>>, FALSE, <<>>, NoMapping) }

StylesArg(kind, entries) == [kind |-> kind, entries |-> entries]

RuleText == [type |-> "str", data |-> "rule"]

RuleBytes == [type |-> "bytes", data |-> "rule"]

StylesSamples ==
    { StylesArg("none", <<>>),
      StylesArg("mapping", <<<<<<"Test", "NoFoo.yml">>, RuleText>>>>),
      StylesArg("mapping", <<<<<<"Test", "NoFoo.yml">>, RuleBytes>>,
                             <<<<"Test", "Bad.yml">>, [type |-> "int", data |-> "7"]>>>>),
      StylesArg("missing", <<>>) }

\* The arguments of the constructor: [ini, styles, vale_bin, stdin_ext,
\* auto_sync, min_alert_level].
BaseCtor ==
    [ini |-> IniArg("mapping", <<>>, FALSE, <<>>, TestIni),
     styles |-> StylesArg("mapping", <<<<<<"Test", "NoFoo.yml">>, RuleText>>>>),
     vale_bin |-> "vale", stdin_ext |-> ".md", auto_sync |-> FALSE,
     min_alert_level |-> None]

DefaultLevels == {None, "", "error"}

\* One argument varied at a time, and auto_sync with every configuration.
Ctors ==
    {[BaseCtor EXCEPT !.ini = i, !.auto_sync = a] : i \in IniSamples, a \in BOOLEAN}
    \cup {[BaseCtor EXCEPT !.styles = x] : x \in StylesSamples}
    \cup {[BaseCtor EXCEPT !.vale_bin = "vale-missing"]}
    \cup {[BaseCtor EXCEPT !.min_alert_level = l] : l \in DefaultLevels}

\* The binaries on PATH and what shutil.which answers.
OnPath == {"vale"}

which(name) == IF name \in OnPath THEN "/usr/bin/vale" ELSE None

\* The help output of the binary, as the set of flags it mentions.
HelpTexts == {{"--help", "--stdin"}, {"--help"}}

Texts == {"foo still appears here."}

LintPaths == {"/docs/doc.md"}

(***************************************************************************)
(* State.                                                                  *)
(*  pc        position of Valedate.__init__ ("init" before the call,       *)
(*            "ready" once it returned, "failed" once its error reached    *)
(*            the caller, "unwinding" while the error leaves the with      *)
(*            block)                                                       *)
(*  err       the error the constructor raised, [type, arg]                *)
(*  disk      the sandbox on disk: [exists, hasIni, ini, styles, files]    *)
(*  finalizer whether the TemporaryDirectory's finalizer is still armed    *)
(*  stack     whether the ExitStack holds the TemporaryDirectory           *)
(*  self      the attributes of the instance                               *)
(*  ctor      the arguments of the constructor                             *)
(*  probeLog  what each run of `vale --help` reported, in order            *)
(*  syncs     runs of `vale sync`                                          *)
(*  scope     the with statement over the instance: "outside", "inside",   *)
(*            "left";  entered  what __enter__ returned;  pending  the     *)
(*            error propagating out of the with body;  exitExc  the        *)
(*            exc_type __exit__ was called with                            *)
(*  last      the last operation run on the instance and its outcome       *)
(*  cleanups  calls of cleanup() so far                                    *)
(*  iniIn, iniOut    input and output of the Config Normalizer run alone   *)
(*  jsonIn, jsonOut  input and output of the Diagnostic Decoder run alone  *)
(*  treeIn, treeOut  input and output of the Style Materializer run alone  *)
(***************************************************************************)
VARIABLES pc, err, disk, finalizer, stack, self, ctor, probeLog, syncs,
          scope, entered, pending, exitExc, last, cleanups,
          iniIn, iniOut, jsonIn, jsonOut, treeIn, treeOut

lifeVars == <<pc, err, disk, finalizer, stack, self, ctor, probeLog, syncs,
              scope, entered, pending, exitExc, last, cleanups>>

pureVars == <<iniIn, iniOut, jsonIn, jsonOut, treeIn, treeOut>>

vars == <<lifeVars, pureVars>>

NoDisk == [exists |-> FALSE, hasIni |-> FALSE, ini |-> <<>>, styles |-> FALSE, files |-> {}]

NoError == [type |-> "none", arg |-> None]

NoCallArgs == [ext |-> None, min_alert_level |-> None]

\* A record of one operation: its name and arguments, the command line it
\* built, whether a process ran and what subprocess.run returned, what _run
\* made of it, and the outcome of the operation.
Call(op, args, cmd, stdin, spawned, proc, ran, out) ==
    [op |-> op, args |-> args, cmd |-> cmd, stdin |-> stdin, spawned |-> spawned,
     proc |-> proc, ran |-> ran, out |-> out]

NoProc == Proc(0, <<>>, <<>>)

Plain(op, out) == Call(op, NoCallArgs, <<>>, None, FALSE, NoProc, Returned(<<>>), out)

NoCall == Plain("none", Returned(<<>>))

Unbuilt ==
    [root |-> None, vale_bin |-> None, stdin_flag_supported |-> FALSE,
     stdin_ext |-> None, default_min_level |-> None, ini_path |-> None, tmp |-> FALSE]

NoIniOut == [done |-> FALSE, err |-> "none", arg |-> None, text |-> <<>>, written |-> <<>>]

NoJsonIn == [kind |-> "raw", files |-> <<>>, raw |-> JNull]

NoJsonOut == [done |-> FALSE, object |-> Decoded(<<>>), array |-> Decoded(<<>>),
              bare |-> <<>>, raw |-> Decoded(<<>>)]

NoTreeOut == [done |-> FALSE, err |-> "none", tree |-> EmptyStyles]

PureIdle ==
    /\ iniIn = IniArg("other", <<>>, FALSE, <<>>, NoMapping)
    /\ iniOut = NoIniOut
    /\ jsonIn = NoJsonIn
    /\ jsonOut = NoJsonOut
    /\ treeIn = <<>>
    /\ treeOut = NoTreeOut

LifeIdle ==
    /\ pc = "init"
    /\ err = NoError
    /\ disk = NoDisk
    /\ finalizer = FALSE
    /\ stack = FALSE
    /\ self = Unbuilt
    /\ probeLog = <<>>
    /\ syncs = 0
    /\ scope = "outside"
    /\ entered = None
    /\ pending = "none"
    /\ exitExc = "none"
    /\ last = NoCall
    /\ cleanups = 0

\* A cleanup that removes the tree without looking whether it is still there.
TmpCleanup_Unguarded(d, fin) ==
    IF d.exists
    THEN [disk |-> NoDisk, raised |-> "none"]
    ELSE [disk |-> d, raised |-> "FileNotFoundError"]

\* TemporaryDirectory.cleanup(): rmtree when the finalizer was still armed or
\* the directory exists; nothing otherwise.
TmpCleanup(d, fin) ==
    IF fin \/ d.exists
    THEN [disk |-> NoDisk, raised |-> "none"]
    ELSE [disk |-> d, raised |-> "none"]

\* An error raised inside the with block of __init__.
Throw(type, arg) ==
    /\ err' = [type |-> type, arg |-> arg]
    /\ pc' = "unwinding"

(***************************************************************************)
(* Valedate.__init__, step by step.                                        *)
(***************************************************************************)
\* tmp_obj = TemporaryDirectory(...); stack.enter_context(tmp_obj); self.root
CreateTmp ==
    /\ pc = "init"
    /\ disk' = [NoDisk EXCEPT !.exists = TRUE]
    /\ finalizer' = TRUE
    /\ stack' = TRUE
    /\ self' = [self EXCEPT !.root = SandboxRoot]
    /\ pc' = "which"
    /\ UNCHANGED <<err, ctor, probeLog, syncs, scope, entered, pending, exitExc,
                   last, cleanups, pureVars>>

\* self.vale_bin = _which_vale(vale_bin)
WhichVale ==
    /\ pc = "which"
    /\ IF which(ctor.vale_bin) = None
       THEN /\ Throw("ValeBinaryNotFoundError", ctor.vale_bin)
            /\ UNCHANGED self
       ELSE /\ self' = [self EXCEPT !.vale_bin = which(ctor.vale_bin)]
            /\ pc' = "probe"
            /\ UNCHANGED err
    /\ UNCHANGED <<disk, finalizer, stack, ctor, probeLog, syncs, scope, entered,
                   pending, exitExc, last, cleanups, pureVars>>

\* return "--stdin" in help_text
_vale_supports_stdin_flag(help_text) == "--stdin" \in help_text

\* self._stdin_flag_supported = _vale_supports_stdin_flag(self.vale_bin), then
\* stdin_ext and default_min_level; subprocess.run may fail to start the binary.
Probe ==
    /\ pc = "probe"
    /\ \E started \in BOOLEAN, help_text \in HelpTexts :
          IF started
          THEN /\ probeLog' = Append(probeLog, _vale_supports_stdin_flag(help_text))
               /\ self' = [self EXCEPT
                             !.stdin_flag_supported = _vale_supports_stdin_flag(help_text),
                             !.stdin_ext = ctor.stdin_ext,
                             !.default_min_level = ctor.min_alert_level]
               /\ pc' = "styles"
               /\ UNCHANGED err
          ELSE /\ Throw("OSError", None)
               /\ UNCHANGED <<probeLog, self>>
    /\ UNCHANGED <<disk, finalizer, stack, ctor, syncs, scope, entered,
                   pending, exitExc, last, cleanups, pureVars>>

\* styles_dir.mkdir(...); self._populate_styles(styles_dir, styles)
PopulateStyles ==
    /\ pc = "styles"
    /\ LET r == _populate_styles(EmptyStyles, StylesDir, ctor.styles)
       IN  /\ disk' = [disk EXCEPT !.styles = TRUE, !.files = r.tree.files]
           /\ IF r.err = "none"
              THEN pc' = "ini" /\ UNCHANGED err
              ELSE Throw(r.err, None)
    /\ UNCHANGED <<finalizer, stack, self, ctor, probeLog, syncs, scope, entered,
                   pending, exitExc, last, cleanups, pureVars>>

\* ini_text = _force_styles_path(_as_ini_text(ini), ...); the config write
WriteIni ==
    /\ pc = "ini"
    /\ LET r == _as_ini_text(ctor.ini)
       IN  IF r.err # "none"
           THEN /\ Throw(r.err, r.arg)
                /\ UNCHANGED <<disk, self>>
           ELSE \E written \in BOOLEAN :
                  IF written
                  THEN /\ disk' = [disk EXCEPT !.hasIni = TRUE,
                                               !.ini = _force_styles_path(r.text, "styles")]
                       /\ self' = [self EXCEPT !.ini_path = IniPath]
                       /\ pc' = "sync"
                       /\ UNCHANGED err
                  ELSE /\ Throw("OSError", None)
                       /\ self' = [self EXCEPT !.ini_path = IniPath]
                       /\ UNCHANGED disk
    /\ UNCHANGED <<finalizer, stack, ctor, probeLog, syncs, scope, entered,
                   pending, exitExc, last, cleanups, pureVars>>

\* A sync step that runs whenever the config declares packages, whether
\* auto_sync was requested or not.
MaybeSync_IgnoresAutoSync ==
    /\ pc = "sync"
    /\ IF DeclaresPackages(disk.ini)
       THEN LET cmd == Cmd(self, <<Flag("sync")>>)
            IN  \E proc \in ProcResults(cmd) :
                   /\ syncs' = syncs + 1
                   /\ last' = Call("sync", NoCallArgs, cmd, None, TRUE, proc,
                                   _run(proc), _run(proc))
                   /\ IF _run(proc).raised = "none"
                      THEN pc' = "popall" /\ UNCHANGED err
                      ELSE Throw(_run(proc).raised, None)
       ELSE /\ pc' = "popall"
            /\ UNCHANGED <<syncs, last, err>>
    /\ UNCHANGED <<disk, finalizer, stack, self, ctor, probeLog, scope, entered,
                   pending, exitExc, cleanups, pureVars>>

\* if auto_sync and re.search(r"(?m)^\s*Packages\s*=", ini_text): self._run(["sync"])
MaybeSync ==
    /\ pc = "sync"
    /\ IF ctor.auto_sync /\ DeclaresPackages(disk.ini)
       THEN LET cmd == Cmd(self, <<Flag("sync")>>)
            IN  \E proc \in ProcResults(cmd) :
                   /\ syncs' = syncs + 1
                   /\ last' = Call("sync", NoCallArgs, cmd, None, TRUE, proc,
                                   _run(proc), _run(proc))
                   /\ IF _run(proc).raised = "none"
                      THEN pc' = "popall" /\ UNCHANGED err
                      ELSE Throw(_run(proc).raised, None)
       ELSE /\ pc' = "popall"
            /\ UNCHANGED <<syncs, last, err>>
    /\ UNCHANGED <<disk, finalizer, stack, self, ctor, probeLog, scope, entered,
                   pending, exitExc, cleanups, pureVars>>

\* self._tmp = tmp_obj; stack.pop_all(); the with block ends with nothing to undo
PopAll ==
    /\ pc = "popall"
    /\ self' = [self EXCEPT !.tmp = TRUE]
    /\ stack' = FALSE
    /\ pc' = "ready"
    /\ UNCHANGED <<err, disk, finalizer, ctor, probeLog, syncs, scope, entered,
                   pending, exitExc, last, cleanups, pureVars>>

\* An unwinding that finds the stack already emptied: nothing is removed.
ExitStackUnwind_Leaky ==
    /\ pc = "unwinding"
    /\ stack' = FALSE
    /\ pc' = "failed"
    /\ UNCHANGED <<err, disk, finalizer, self, ctor, probeLog, syncs, scope, entered,
                   pending, exitExc, last, cleanups, pureVars>>

\* ExitStack.__exit__ on an error: the TemporaryDirectory it holds is cleaned
\* up, then the error reaches the caller.
ExitStackUnwind ==
    /\ pc = "unwinding"
    /\ IF stack
       THEN /\ disk' = TmpCleanup(disk, finalizer).disk
            /\ finalizer' = FALSE
       ELSE UNCHANGED <<disk, finalizer>>
    /\ stack' = FALSE
    /\ pc' = "failed"
    /\ UNCHANGED <<err, self, ctor, probeLog, syncs, scope, entered,
                   pending, exitExc, last, cleanups, pureVars>>

(***************************************************************************)
(* The operations of a constructed harness.                                *)
(***************************************************************************)
\* An argument list that carries --stdin whatever the probe reported.
LintArgs_AlwaysStdin(hs, ext, min_alert_level) ==
    LET base == <<Flag("--no-global"), Flag("--no-exit"), Opt("--output", "JSON"),
                  Opt("--ext", PyOr(ext, hs.stdin_ext)), Flag("--stdin")>>
        level == PyOr(min_alert_level, hs.default_min_level)
    IN  IF level # None
        THEN Append(base, Opt("--minAlertLevel", level))
        ELSE base

\* The argument list Valedate.lint builds.
LintArgs(hs, ext, min_alert_level) ==
    LET base == <<Flag("--no-global"), Flag("--no-exit"), Opt("--output", "JSON"),
                  Opt("--ext", PyOr(ext, hs.stdin_ext))>>
        withStdin == IF hs.stdin_flag_supported
                     THEN Append(base, Flag("--stdin"))
                     ELSE base
        level == PyOr(min_alert_level, hs.default_min_level)
    IN  IF level # None
        THEN Append(withStdin, Opt("--minAlertLevel", level))
        ELSE withStdin

\* The argument list Valedate.lint_path builds, the path last.
LintPathArgs(hs, path, min_alert_level) ==
    LET base == <<Flag("--no-global"), Flag("--no-exit"), Opt("--output", "JSON")>>
        level == PyOr(min_alert_level, hs.default_min_level)
        args == IF level # None
                THEN Append(base, Opt("--minAlertLevel", level))
                ELSE base
    IN  Append(args, Flag(path))

\* next(iter(by_file.values()), [])
FirstValue(by_file) == IF by_file = <<>> THEN <<>> ELSE by_file[1][2]

\* lint after _run: decode, then the first entry's diagnostics.
LintResult(ran) ==
    IF ran.raised # "none" THEN ran
    ELSE LET d == _decode_vale_json(ran.ret)
         IN  IF d.err # "none" THEN Raised(d.err) ELSE Returned(FirstValue(d.map))

\* lint_path after _run: decode, the whole mapping.
LintPathResult(ran) ==
    IF ran.raised # "none" THEN ran
    ELSE LET d == _decode_vale_json(ran.ret)
         IN  IF d.err # "none" THEN Raised(d.err) ELSE Returned(d.map)

\* subprocess.run(cmd, cwd=self.root, ...): with the sandbox gone the child
\* cannot enter its working directory and no process runs.
Spawn(cmd) == IF disk.exists THEN ProcResults(cmd) ELSE {NoProc}

RunOutcome(proc) == IF disk.exists THEN _run(proc) ELSE Raised("FileNotFoundError")

\* An error raised by an operation inside the with body leaves the body
\* unless the body catches it.
Propagates(out, caught) ==
    IF scope = "inside" /\ out.raised # "none" /\ ~caught THEN out.raised ELSE "none"

Catching == IF scope = "inside" THEN BOOLEAN ELSE {TRUE}

Usable == pc = "ready" /\ pending = "none"

\* A lint that keeps the extension of the call as the harness's default.
lint_KeepsExt(text, ext, min_alert_level, caught) ==
    /\ Usable
    /\ LET cmd == Cmd(self, LintArgs(self, ext, min_alert_level))
       IN  \E proc \in Spawn(cmd) :
              /\ last' = Call("lint", [ext |-> ext, min_alert_level |-> min_alert_level],
                               cmd, text, disk.exists, proc, RunOutcome(proc),
                               LintResult(RunOutcome(proc)))
              /\ pending' = Propagates(LintResult(RunOutcome(proc)), caught)
    /\ self' = [self EXCEPT !.stdin_ext = PyOr(ext, self.stdin_ext)]
    /\ UNCHANGED <<pc, err, disk, finalizer, stack, ctor, probeLog, syncs,
                   scope, entered, exitExc, cleanups, pureVars>>

lint(text, ext, min_alert_level, caught) ==
    /\ Usable
    /\ LET cmd == Cmd(self, LintArgs(self, ext, min_alert_level))
       IN  \E proc \in Spawn(cmd) :
              /\ last' = Call("lint", [ext |-> ext, min_alert_level |-> min_alert_level],
                               cmd, text, disk.exists, proc, RunOutcome(proc),
                               LintResult(RunOutcome(proc)))
              /\ pending' = Propagates(LintResult(RunOutcome(proc)), caught)
    /\ UNCHANGED <<pc, err, disk, finalizer, stack, self, ctor, probeLog, syncs,
                   scope, entered, exitExc, cleanups, pureVars>>

lint_path(path, min_alert_level, caught) ==
    /\ Usable
    /\ LET cmd == Cmd(self, LintPathArgs(self, path, min_alert_level))
       IN  \E proc \in Spawn(cmd) :
              /\ last' = Call("lint_path",
                               [ext |-> None, min_alert_level |-> min_alert_level],
                               cmd, None, disk.exists, proc, RunOutcome(proc),
                               LintPathResult(RunOutcome(proc)))
              /\ pending' = Propagates(LintPathResult(RunOutcome(proc)), caught)
    /\ UNCHANGED <<pc, err, disk, finalizer, stack, self, ctor, probeLog, syncs,
                   scope, entered, exitExc, cleanups, pureVars>>

\* Valedate.cleanup: self._tmp.cleanup()
cleanup ==
    /\ Usable
    /\ cleanups < MaxCleanups
    /\ disk' = TmpCleanup(disk, finalizer).disk
    /\ finalizer' = FALSE
    /\ last' = Plain("cleanup", Raised(TmpCleanup(disk, finalizer).raised))
    /\ cleanups' = cleanups + 1
    /\ UNCHANGED <<pc, err, stack, self, ctor, probeLog, syncs, scope, entered,
                   pending, exitExc, pureVars>>

\* What Valedate.__enter__ returns.
__enter__ == "self"

Enter ==
    /\ Usable
    /\ scope = "outside"
    /\ scope' = "inside"
    /\ entered' = __enter__
    /\ UNCHANGED <<pc, err, disk, finalizer, stack, self, ctor, probeLog, syncs,
                   pending, exitExc, last, cleanups, pureVars>>

\* An __exit__ that cleans up only when the body ended without an error.
Exit_OnlyOnSuccess ==
    /\ pc = "ready"
    /\ scope = "inside"
    /\ disk' = IF pending = "none" THEN TmpCleanup(disk, finalizer).disk ELSE disk
    /\ finalizer' = (finalizer /\ pending # "none")
    /\ last' = Plain("__exit__", Returned(<<>>))
    /\ exitExc' = pending
    /\ pending' = "none"
    /\ scope' = "left"
    /\ UNCHANGED <<pc, err, stack, self, ctor, probeLog, syncs, entered,
                   cleanups, pureVars>>

\* Valedate.__exit__(exc_type, exc, tb): self.cleanup(), whatever exc_type is;
\* it returns None, so a pending error goes on to the caller.
__exit__ ==
    /\ pc = "ready"
    /\ scope = "inside"
    /\ disk' = TmpCleanup(disk, finalizer).disk
    /\ finalizer' = FALSE
    /\ last' = Plain("__exit__", Raised(TmpCleanup(disk, finalizer).raised))
    /\ exitExc' = pending
    /\ pending' = "none"
    /\ scope' = "left"
    /\ UNCHANGED <<pc, err, stack, self, ctor, probeLog, syncs, entered,
                   cleanups, pureVars>>

Construct ==
    \/ CreateTmp
    \/ WhichVale
    \/ Probe
    \/ PopulateStyles
    \/ WriteIni
    \/ MaybeSync
    \/ PopAll
    \/ ExitStackUnwind

(***************************************************************************)
(* Spec: the lifecycle of one harness, from the constructor call on, with  *)
(* lint and lint_path called with their default arguments.                 *)
(***************************************************************************)
Init ==
    /\ LifeIdle
    /\ PureIdle
    /\ ctor \in Ctors

Next ==
    \/ Construct
    \/ \E text \in Texts, caught \in Catching : lint(text, None, None, caught)
    \/ \E path \in LintPaths, caught \in Catching : lint_path(path, None, caught)
    \/ cleanup
    \/ Enter
    \/ __exit__

Spec == Init /\ [][Next]_vars

(***************************************************************************)
(* SpecLint: one harness linting, with every combination of the default    *)
(* and the per-call extension and severity floor.                          *)
(***************************************************************************)
Levels == {None, "", "warning", "error"}

Exts == {None, "", ".txt"}

InitLint ==
    /\ LifeIdle
    /\ PureIdle
    /\ ctor \in {[BaseCtor EXCEPT !.min_alert_level = l] : l \in DefaultLevels}

NextLint ==
    \/ Construct
    \/ \E text \in Texts, ext \in Exts, level \in Levels : lint(text, ext, level, TRUE)
    \/ \E path \in LintPaths, level \in Levels : lint_path(path, level, TRUE)

SpecLint == InitLint /\ [][NextLint]_vars

(***************************************************************************)
(* SpecIni: the Config Normalizer run alone, on every text of at most      *)
(* MaxIniLines lines over IniLines (as a raw string and as the contents of *)
(* a file) and on the sample mappings; the output is the canonical text    *)
(* and the text Valedate.__init__ writes to the config file.               *)
(***************************************************************************)
IniLines ==
    { BlankLine, CommentLine, Header("*.md"),
      KV(FALSE, "StylesPath", <<"elsewhere">>),
      KV(TRUE, "StylesPath", <<"styles">>),
      KV(FALSE, "stylespath", <<"elsewhere">>),
      KV(FALSE, "Packages", <<"Microsoft">>) }

RECURSIVE SeqsUpTo(_, _)
SeqsUpTo(S, n) ==
    IF n = 0 THEN {<<>>}
    ELSE LET shorter == SeqsUpTo(S, n - 1)
         IN  shorter \cup {Append(q, x) : q \in {r \in shorter : Len(r) = n - 1}, x \in S}

MappingSamples ==
    { TestIni,
      <<<<Sec("top", FALSE), Body(<<<<"StylesPath", Scalar("elsewhere")>>>>)>>>>,
      <<<<Sec("__root__", FALSE), Body(<<<<"stylespath", Scalar("elsewhere")>>>>)>>,
        <<Sec("*.md", FALSE), Body(<<<<"BasedOnStyles", ListOf(<<"Test", "Vale">>)>>>>)>>>>,
      <<<<Sec("*.md", TRUE), NotABody>>>>,
      <<<<Sec("*.md", FALSE), Body(<<<<"BasedOnStyles", Scalar("Test")>>>>)>>,
        <<Sec("*.txt", TRUE), Body(<<>>)>>>>,
      <<<<Sec("__root__", FALSE), Body(<<<<"MinAlertLevel", Scalar("error")>>>>)>>,
        <<Sec("top", FALSE), Body(<<<<"Packages", Scalar("Microsoft")>>>>)>>>>,
      <<<<Sec("*.md", FALSE), Body(<<<<"BasedOnStyles", Scalar("Test")>>>>)>>,
        <<Sec("top", FALSE), Body(<<<<"MinAlertLevel", Scalar("error")>>>>)>>,
        <<Sec("*.txt", FALSE), NotABody>>,
        <<Sec("*.rst", FALSE), NotABody>>>>,
      <<<<Sec("__root__", FALSE), NotABody>>,
        <<Sec("*.md", TRUE), Body(<<<<"BasedOnStyles", Scalar("Test")>>>>)>>>>,
      <<<<Sec("top", FALSE), NotABody>>>> }

IniInputs ==
    {IniArg("str", t, FALSE, <<>>, NoMapping) : t \in SeqsUpTo(IniLines, MaxIniLines)}
    \cup {IniArg("pathlike", <<>>, TRUE, t, NoMapping) : t \in SeqsUpTo(IniLines, MaxIniLines)}
    \cup {IniArg("mapping", <<>>, FALSE, <<>>, m) : m \in MappingSamples}

InitIni ==
    /\ LifeIdle
    /\ ctor = BaseCtor
    /\ iniIn \in IniInputs
    /\ iniOut = NoIniOut
    /\ jsonIn = NoJsonIn
    /\ jsonOut = NoJsonOut
    /\ treeIn = <<>>
    /\ treeOut = NoTreeOut

\* Lines 383-385 of Valedate.__init__ on iniIn.
Normalise ==
    /\ ~iniOut.done
    /\ LET r == _as_ini_text(iniIn)
       IN  iniOut' = [done |-> TRUE, err |-> r.err, arg |-> r.arg, text |-> r.text,
                      written |-> IF r.err = "none"
                                  THEN _force_styles_path(r.text, "styles")
                                  ELSE <<>>]
    /\ UNCHANGED <<lifeVars, iniIn, jsonIn, jsonOut, treeIn, treeOut>>

NextIni == Normalise

SpecIni == InitIni /\ [][NextIni]_vars

(***************************************************************************)
(* SpecDecode: the Diagnostic Decoder run alone.  An input is either a     *)
(* list of at most MaxFiles source paths, each with at most MaxAlerts      *)
(* alerts, decoded in each of the three shapes, or one JSON value of       *)
(* another structure.                                                      *)
(***************************************************************************)
MinimalAlert ==
    JObj(<<<<"Check", JStr("Test.NoFoo")>>, <<"Message", JStr("Avoid 'foo'.")>>,
           <<"Severity", JStr("suggestion")>>>>)

AlertSamples == {WarnAlert, MinimalAlert}

SourcePaths == {"a.md", "b.md", "c.md"}

AlertLists == SeqsUpTo(AlertSamples, MaxAlerts)

Distinct(q) == \A i, j \in 1..Len(q) : i # j => q[i] # q[j]

FileLists ==
    UNION { {[i \in 1..Len(ps) |-> <<ps[i], as[i]>>] :
                as \in [1..Len(ps) -> AlertLists]} :
            ps \in {q \in SeqsUpTo(SourcePaths, MaxFiles) : Distinct(q)} }

\* Shape 1: an object keyed by path.
AsObject(files) ==
    JObj([i \in 1..Len(files) |-> <<files[i][1], JArr(files[i][2])>>])

\* Shape 2: an array of per-file objects.
AsFileArray(files) ==
    JArr([i \in 1..Len(files) |->
            JObj(<<<<"Path", JStr(files[i][1])>>, <<"Alerts", JArr(files[i][2])>>>>)])

\* Shape 3: the bare alert array of one source.
AsBareArray(alerts) == JArr(alerts)

JTrue == [t |-> "bool", v |-> <<"true">>]

FileObj == JObj(<<<<"Path", JStr("a.md")>>, <<"Alerts", JArr(<<WarnAlert>>)>>>>)

Scalars == {JNull, JTrue, JStr("x"), JNum("1")}

NonObjectArrays ==
    {JArr(<<JNum("1")>>), JArr(<<JStr("x"), JNull>>), JArr(<<JArr(<<>>)>>)}

BrokenFileArrays ==
    {JArr(<<FileObj, JNum("1")>>), JArr(<<FileObj, JObj(<<<<"Path", JStr("b.md")>>>>)>>)}

NonAlertObjects ==
    {JObj(<<<<"a.md", JStr("x")>>>>), JObj(<<<<"a.md", JObj(<<>>)>>>>),
     JObj(<<<<"a.md", JArr(<<JNum("1")>>)>>>>)}

OtherStructures ==
    Scalars \cup {JArr(<<>>)} \cup NonObjectArrays \cup BrokenFileArrays
    \cup NonAlertObjects

InitDecode ==
    /\ LifeIdle
    /\ ctor = BaseCtor
    /\ iniIn = IniArg("other", <<>>, FALSE, <<>>, NoMapping)
    /\ iniOut = NoIniOut
    /\ jsonIn \in {[kind |-> "files", files |-> f, raw |-> JNull] : f \in FileLists}
              \cup {[kind |-> "raw", files |-> <<>>, raw |-> x] : x \in OtherStructures}
    /\ jsonOut = NoJsonOut
    /\ treeIn = <<>>
    /\ treeOut = NoTreeOut

\* The same files decoded in the three shapes.
DecodeShapes ==
    /\ ~jsonOut.done
    /\ jsonIn.kind = "files"
    /\ jsonOut' = [done |-> TRUE,
                   object |-> DecodeValue(AsObject(jsonIn.files)),
                   array |-> DecodeValue(AsFileArray(jsonIn.files)),
                   bare |-> [i \in 1..Len(jsonIn.files) |->
                               DecodeValue(AsBareArray(jsonIn.files[i][2]))],
                   raw |-> Decoded(<<>>)]
    /\ UNCHANGED <<lifeVars, iniIn, iniOut, jsonIn, treeIn, treeOut>>

\* One value of another structure decoded.
DecodeOther ==
    /\ ~jsonOut.done
    /\ jsonIn.kind = "raw"
    /\ jsonOut' = [NoJsonOut EXCEPT !.done = TRUE, !.raw = DecodeValue(jsonIn.raw)]
    /\ UNCHANGED <<lifeVars, iniIn, iniOut, jsonIn, treeIn, treeOut>>

NextDecode == DecodeShapes \/ DecodeOther

SpecDecode == InitDecode /\ [][NextDecode]_vars

(***************************************************************************)
(* SpecStyles: the Style Materializer run alone on an in-memory mapping of *)
(* at most MaxStyleEntries entries with distinct keys, each a relative     *)
(* path of RelPaths with text, binary or other contents.                   *)
(***************************************************************************)
RelPaths ==
    { <<"Test", "NoFoo.yml">>,
      <<"Test", ".", "NoFoo.yml">>,
      <<"Test", "..", "NoFoo.yml">>,
      <<"NoFoo.yml">>,
      <<"Test">>,
      <<"..", "escape.yml">>,
      <<"..", "..", "escape.yml">> }

Contents == {RuleText, RuleBytes, [type |-> "int", data |-> "7"]}

StyleMappings ==
    {m \in SeqsUpTo(RelPaths \X Contents, MaxStyleEntries) :
        \A i, j \in 1..Len(m) : i # j => m[i][1] # m[j][1]}

InitStyles ==
    /\ LifeIdle
    /\ ctor = BaseCtor
    /\ iniIn = IniArg("other", <<>>, FALSE, <<>>, NoMapping)
    /\ iniOut = NoIniOut
    /\ jsonIn = NoJsonIn
    /\ jsonOut = NoJsonOut
    /\ treeIn \in StyleMappings
    /\ treeOut = NoTreeOut

\* _materialise_tree(styles_dir, treeIn) on the freshly made styles directory.
Materialise ==
    /\ ~treeOut.done
    /\ LET r == _materialise_tree(EmptyStyles, StylesDir, treeIn, 1)
       IN  treeOut' = [done |-> TRUE, err |-> r.err, tree |-> r.tree]
    /\ UNCHANGED <<lifeVars, iniIn, iniOut, jsonIn, jsonOut, treeIn>>

NextStyles == Materialise

SpecStyles == InitStyles /\ [][NextStyles]_vars

(***************************************************************************)
(* Properties.                                                             *)
(***************************************************************************)
SandboxGone ==
    /\ ~disk.exists
    /\ ~disk.hasIni
    /\ ~disk.styles
    /\ disk.files = {}

HasFlag(cmd, name) == \E i \in 1..Len(cmd) : cmd[i].flag = name

FlagCount(cmd, name) == Cardinality({i \in 1..Len(cmd) : cmd[i].flag = name})

\* C1: construction is atomic with respect to the sandbox.  When the
\* constructor's error has reached the caller the sandbox directory does not
\* exist and the instance owns nothing; when the constructor returned, the
\* instance owns the temporary directory, and until cleanup() or __exit__ runs
\* the directory, its config file and its styles directory exist.
C1_AtomicConstruction ==
    /\ pc = "failed" => (err.type # "none" /\ SandboxGone /\ ~self.tmp /\ ~stack)
    /\ pc = "ready" =>
          /\ err.type = "none"
          /\ self.tmp
          /\ ~stack
          /\ (cleanups = 0 /\ scope # "left") =>
                (disk.exists /\ disk.hasIni /\ disk.styles /\ finalizer)
    /\ disk.exists => pc \notin {"init", "failed"}

\* C1 witness: the last setup step, the auto-sync run, failed after the styles
\* and the config file were written, and the error has reached the caller.
C1_Witness ==
    /\ pc = "failed"
    /\ err.type = "ValeExecutionError"
    /\ syncs = 1
    /\ ~disk.exists

\* C2: a sandbox directory exists at no point before the binary has been
\* resolved, and a failed lookup raises ValeBinaryNotFoundError carrying the
\* requested name.
C2_NoDiskBeforeResolution ==
    /\ disk.exists => self.vale_bin # None
    /\ err.type = "ValeBinaryNotFoundError" => err.arg = ctor.vale_bin

\* C3: cleanup() is idempotent.  After the first call the sandbox tree (config
\* file and styles subtree included) is gone; no call raises; a later call
\* changes nothing of the sandbox or the instance.
C3_CleanupIdempotent ==
    /\ [](cleanups >= 1 => SandboxGone)
    /\ [](last.op = "cleanup" => last.out.raised = "none")
    /\ [][(cleanup /\ cleanups >= 1) =>
            /\ disk' = disk
            /\ self' = self
            /\ finalizer' = finalizer
            /\ last'.out.raised = "none"]_vars

\* C3 witness: cleanup() has been called at least twice.
C3_Witness ==
    /\ cleanups >= 2
    /\ last.op = "cleanup"
    /\ last.out.raised = "none"
    /\ SandboxGone

\* C4: __enter__ returns the instance itself, and once the with statement is
\* left the sandbox is removed, whether the body ended normally, with an error
\* raised by lint or lint_path, or after an explicit cleanup().
C4_ScopeExitCleansUp ==
    /\ scope # "outside" => entered = "self"
    /\ scope = "left" => (SandboxGone /\ ~finalizer)
    /\ last.op = "__exit__" => (last.out.raised = "none" /\ scope = "left")

\* C4 witness: the with body was left by a ValeExecutionError raised in it.
C4_Witness ==
    /\ scope = "left"
    /\ exitExc = "ValeExecutionError"
    /\ SandboxGone

\* C5: _run raises ValeExecutionError, carrying the exit code and the decoded
\* stderr, exactly when the exit code is 2 or greater; for every other exit
\* code it raises nothing and returns the decoded stdout.
C5_RunExitCodeThreshold ==
    last.spawned =>
       /\ (last.ran.raised = "ValeExecutionError") <=> (last.proc.returncode >= 2)
       /\ last.ran.raised \in {"none", "ValeExecutionError"}
       /\ last.proc.returncode >= 2 =>
             /\ last.ran.exit_code = last.proc.returncode
             /\ Len(last.ran.stderr) = Len(last.proc.stderr)
             /\ \A i \in 1..Len(last.proc.stderr) :
                   last.ran.stderr[i] = IF last.proc.stderr[i] = "xFF"
                                        THEN "U+FFFD"
                                        ELSE last.proc.stderr[i]
       /\ last.proc.returncode < 2 =>
             /\ Len(last.ran.ret) = Len(last.proc.stdout)
             /\ \A i \in 1..Len(last.proc.stdout) :
                   last.ran.ret[i] = IF last.proc.stdout[i] = "xFF"
                                     THEN "U+FFFD"
                                     ELSE last.proc.stdout[i]

\* C5 witness: a run that ended with exit code 2, the threshold itself.
C5_Witness ==
    /\ last.spawned
    /\ last.proc.returncode = 2
    /\ last.ran.raised = "ValeExecutionError"
    /\ last.ran.exit_code = 2
    /\ last.ran.stderr = <<"E100", "U+FFFD">>

\* str.lower() on the keys of the model.
LowerKey(line) == IF line.key \in {"StylesPath", "stylespath"} THEN "stylespath" ELSE line.key

DirectiveAnyCase(line) == line.k = "kv" /\ LowerKey(line) = "stylespath"

SandboxDirective == KV(FALSE, "StylesPath", <<"styles">>)

\* C6: the styles-path directive is located by a case-insensitive line match;
\* a directive found is replaced in place and none is prepended, otherwise one
\* is prepended; in the written config every styles-path directive line,
\* whatever its letter case, names the sandbox's styles directory.
C6_EveryDirectiveNamesSandbox ==
    (iniOut.done /\ iniOut.err = "none") =>
       /\ \A i \in 1..Len(iniOut.written) :
             DirectiveAnyCase(iniOut.written[i]) => iniOut.written[i].val = <<"styles">>
       /\ (\E i \in 1..Len(iniOut.text) : DirectiveAnyCase(iniOut.text[i]))
             => Len(iniOut.written) <= Len(iniOut.text)
       /\ ~(\E i \in 1..Len(iniOut.text) : DirectiveAnyCase(iniOut.text[i]))
             => iniOut.written = <<SandboxDirective>> \o iniOut.text

\* The bare alert array of source i decodes to the diagnostics the other two
\* shapes give for that source.
BareAgrees(i) ==
    /\ jsonOut.bare[i].err = "none"
    /\ jsonOut.object.err = "none"
    /\ jsonOut.array.err = "none"
    /\ Len(jsonOut.bare[i].map) = 1
    /\ FirstValue(jsonOut.bare[i].map) = jsonOut.object.map[i][2]
    /\ Len(jsonOut.object.map[i][2]) = Len(jsonIn.files[i][2])

SameMapping ==
    /\ jsonOut.object.err = "none"
    /\ jsonOut.object = jsonOut.array
    /\ Len(jsonOut.object.map) = Len(jsonIn.files)
    /\ \A i \in 1..Len(jsonIn.files) : jsonOut.object.map[i][1] = jsonIn.files[i][1]

\* C7 as stated: for any source paths with their alert lists, empty lists and
\* the empty file list included, the object shape and the array-of-files shape
\* decode to the same mapping, and the bare array of each source decodes to
\* that source's diagnostics.
C7_ShapeInvariance ==
    (jsonOut.done /\ jsonIn.kind = "files") =>
       /\ SameMapping
       /\ \A i \in 1..Len(jsonIn.files) : BareAgrees(i)

\* C7 amended: the same for every non-empty file list, empty alert lists
\* included; for the empty file list the empty object decodes to the empty
\* mapping and the empty array to the mapping that holds the key "<stdin>"
\* with no diagnostics.
C7_ShapeInvarianceNonEmpty ==
    (jsonOut.done /\ jsonIn.kind = "files") =>
       /\ jsonIn.files # <<>> => SameMapping
       /\ \A i \in 1..Len(jsonIn.files) : BareAgrees(i)
       /\ jsonIn.files = <<>> =>
             /\ jsonOut.object = Decoded(<<>>)
             /\ jsonOut.array = Decoded(<<<<"<stdin>", <<>>>>>>)

\* C7 witness: two sources decoded, one with no alert and one with two.
C7_Witness ==
    /\ jsonOut.done
    /\ jsonIn.kind = "files"
    /\ Len(jsonIn.files) = 2
    /\ jsonIn.files[1][2] = <<>>
    /\ Len(jsonIn.files[2][2]) = 2
    /\ Len(jsonOut.array.map) = 2
    /\ Len(jsonOut.array.map[2][2]) = 2

\* C8 as stated: every valid JSON value of another structure decodes to the
\* empty mapping and raises nothing.
C8_NeverFails ==
    (jsonOut.done /\ jsonIn.kind = "raw") => jsonOut.raw = Decoded(<<>>)

\* C8 amended: a value that is neither an object nor an array (a scalar, a
\* boolean, null) decodes to the empty mapping; the empty array decodes to the
\* mapping that holds the key "<stdin>" with no diagnostics; an array of
\* non-objects and an object whose values are not alert arrays raise a
\* validation error, and an array whose first element is a per-file object but
\* a later one is not raises a TypeError or a KeyError.
C8_ScalarsDecodeEmpty ==
    (jsonOut.done /\ jsonIn.kind = "raw") =>
       /\ jsonIn.raw.t \notin {"obj", "arr"} => jsonOut.raw = Decoded(<<>>)
       /\ jsonIn.raw = JArr(<<>>) => jsonOut.raw = Decoded(<<<<"<stdin>", <<>>>>>>)
       /\ jsonIn.raw \in NonObjectArrays \cup NonAlertObjects
             => jsonOut.raw = DecodeError("ValidationError")
       /\ jsonIn.raw \in BrokenFileArrays
             => (jsonOut.raw.err \in {"TypeError", "KeyError"} /\ jsonOut.raw.map = <<>>)

\* C8 witness: a JSON string decoded to the empty mapping.
C8_Witness ==
    /\ jsonOut.done
    /\ jsonIn.kind = "raw"
    /\ jsonIn.raw = JStr("x")
    /\ jsonOut.raw = Decoded(<<>>)

IsLintCall == last.op \in {"lint", "lint_path"}

\* C9 as stated: the floor argument is appended exactly when an override or a
\* default is given, and its value is the override when the caller supplied
\* one, the default otherwise.
C9_FloorAsSupplied ==
    IsLintCall =>
       LET override == last.args.min_alert_level
           given == override # None \/ self.default_min_level # None
           value == IF override # None THEN override ELSE self.default_min_level
       IN  /\ HasFlag(last.cmd, "--minAlertLevel") <=> given
           /\ given => FloorOf(last.cmd) = value

\* C9 amended: the floor argument is appended (once) exactly when the
\* effective floor is not None, the effective floor being the override when
\* the caller supplied a non-empty one and the harness default otherwise; a
\* harness with default floor "error" passes it on every lint call that does
\* not override it, and such a call returns no warning-level diagnostic.
C9_FloorEffective ==
    IsLintCall =>
       LET override == last.args.min_alert_level
           supplied == override \notin {None, ""}
           value == IF supplied THEN override ELSE self.default_min_level
       IN  /\ FlagCount(last.cmd, "--minAlertLevel") = IF value # None THEN 1 ELSE 0
           /\ value # None => FloorOf(last.cmd) = value
           /\ (last.op = "lint" /\ ~supplied /\ self.default_min_level = "error"
                 /\ last.out.raised = "none")
                 => \A i \in 1..Len(last.out.ret) : last.out.ret[i].severity = "error"

\* C9 witness: a harness with default floor "error", a lint call without an
\* override, the floor passed and no diagnostic returned.
C9_Witness ==
    /\ last.op = "lint"
    /\ last.args.min_alert_level = None
    /\ self.default_min_level = "error"
    /\ FloorOf(last.cmd) = "error"
    /\ last.out = Returned(<<>>)

\* C10: the binary is probed exactly once, during construction; the cached
\* result stays what that probe reported; every lint invocation carries
\* --stdin if and only if the probe reported support, a lint_path invocation
\* never does, and neither runs the probe again.
C10_ProbedOnce ==
    /\ Len(probeLog) <= 1
    /\ pc \in {"styles", "ini", "sync", "popall", "ready"} =>
          (Len(probeLog) = 1 /\ self.stdin_flag_supported = probeLog[1])
    /\ last.op = "lint" =>
          (Len(probeLog) = 1 /\ (HasFlag(last.cmd, "--stdin") <=> probeLog[1]))
    /\ last.op = "lint_path" =>
          (Len(probeLog) = 1 /\ ~HasFlag(last.cmd, "--stdin"))

\* C10 witness: the probe reported no support and a lint call ran without
\* the flag.
C10_Witness ==
    /\ last.op = "lint"
    /\ probeLog = <<FALSE>>
    /\ ~HasFlag(last.cmd, "--stdin")
    /\ last.spawned

\* A place strictly below the styles root.
UnderRoot(place) ==
    /\ Len(place) > Len(StylesDir)
    /\ SubSeq(place, 1, Len(StylesDir)) = StylesDir

TextOrBinary(m) == \A i \in 1..Len(m) : m[i][2].type \in {"str", "bytes"}

\* C11: materialising a mapping whose contents are text or binary turns
\* every entry into exactly one file under the styles root, its parent
\* directory made and its bytes those of the entry; no file lies outside the
\* styles root and no two entries share a file.
C11_OneFilePerEntryUnderRoot ==
    (treeOut.done /\ TextOrBinary(treeIn)) =>
       /\ treeOut.err = "none"
       /\ \A f \in treeOut.tree.files :
             /\ UnderRoot(f[1])
             /\ Parent(f[1]) \in treeOut.tree.dirs
       /\ Cardinality(treeOut.tree.files) = Len(treeIn)
       /\ \A i \in 1..Len(treeIn) :
             \E f \in treeOut.tree.files : f[2] = FileBytes(treeIn[i][2])

\* The config text holds a line  Packages = ...
HasPackagesLine(text) ==
    \E i \in 1..Len(text) : text[i].k = "kv" /\ text[i].key = "Packages"

\* The constructor has returned and nothing has removed the sandbox since.
Built == pc = "ready" /\ cleanups = 0 /\ scope # "left"

\* C12: during construction `vale sync` runs exactly once if auto_sync is
\* requested and the written config declares Packages, and not at all
\* otherwise; when it runs, the styles tree is materialised and the config
\* file written; a sync run with exit code 2 or greater aborts construction
\* with a ValeExecutionError and the sandbox is removed.
C12_SyncOnceAfterSetup ==
    /\ [](syncs <= 1)
    /\ [](~ctor.auto_sync => syncs = 0)
    /\ []((pc = "popall" \/ Built) =>
            (syncs = 1 <=> (ctor.auto_sync /\ HasPackagesLine(disk.ini))))
    /\ [][syncs' # syncs =>
            /\ syncs' = syncs + 1
            /\ disk.exists /\ disk.styles /\ disk.hasIni
            /\ ctor.styles.kind = "mapping" =>
                  Cardinality(disk.files) = Len(ctor.styles.entries)
            /\ HasPackagesLine(disk.ini)
            /\ disk' = disk
            /\ last'.op = "sync"
            /\ HasFlag(last'.cmd, "sync")]_vars
    /\ []((last.op = "sync" /\ last.proc.returncode >= 2) =>
            /\ pc \in {"unwinding", "failed"}
            /\ err.type = "ValeExecutionError"
            /\ pc = "failed" => SandboxGone)
    /\ []((last.op = "sync" /\ last.proc.returncode < 2) =>
            pc \notin {"unwinding", "failed"})

\* C12 witness: a harness built with auto_sync whose config declares
\* Packages; the sync ran once with exit code 0 and the constructor returned.
C12_Witness ==
    /\ Built
    /\ ctor.auto_sync
    /\ syncs = 1
    /\ last.op = "sync"
    /\ last.proc.returncode = 0
    /\ disk.hasIni

\* The key/value lines of a body, in its order.
BodyLines(body) ==
    [k \in 1..Len(body.items) |-> KV(FALSE, body.items[k][1], body.items[k][2].items)]

IsAlias(section) == ~section.br /\ section.name \in {"__root__", "top"}

\* The body found under the root aliases: "__root__" first, then "top".
AliasBody(mapping) ==
    LET at(name) == {i \in 1..Len(mapping) :
                       ~mapping[i][1].br /\ mapping[i][1].name = name}
    IN  IF at("__root__") # {} THEN mapping[CHOOSE i \in at("__root__") : TRUE][2]
        ELSE IF at("top") # {} THEN mapping[CHOOSE i \in at("top") : TRUE][2]
        ELSE [isMap |-> TRUE, items |-> <<>>]

\* A blank line, the bracketed header and the key/value lines of every entry
\* from the i-th on that is not a root alias.
RECURSIVE SectionBlocks(_, _)
SectionBlocks(mapping, i) ==
    IF i > Len(mapping) THEN <<>>
    ELSE IF IsAlias(mapping[i][1]) THEN SectionBlocks(mapping, i + 1)
    ELSE <<BlankLine, Header(mapping[i][1].name)>> \o BodyLines(mapping[i][2])
            \o SectionBlocks(mapping, i + 1)

\* The text without the blank lines before its first line.
RECURSIVE DropLeadingBlank(_)
DropLeadingBlank(text) ==
    IF text # <<>> /\ text[1].k = "blank" THEN DropLeadingBlank(Tail(text)) ELSE text

\* C13: a mapping all of whose bodies are key/value mappings renders as the
\* root pseudo-section's lines, unsectioned and first, then for every other
\* entry, in mapping order, a blank line, the bracketed header and the
\* entry's lines (compared without regard to blank lines at the start of the
\* text); a mapping with an entry whose body is not a key/value mapping
\* fails with InvalidIniSectionError naming such an entry, and no config is
\* written.
C13_RenderMapping ==
    (iniOut.done /\ iniIn.kind = "mapping") =>
       LET m == iniIn.mapping
           bad == {i \in 1..Len(m) : ~m[i][2].isMap}
       IN  /\ bad = {} =>
                 /\ iniOut.err = "none"
                 /\ DropLeadingBlank(iniOut.text) \in
                       { DropLeadingBlank(BodyLines(AliasBody(m)) \o SectionBlocks(m, 1)),
                         <<>> }
                 /\ DropLeadingBlank(iniOut.text) = <<>> =>
                       BodyLines(AliasBody(m)) \o SectionBlocks(m, 1) = <<>>
           /\ bad # {} =>
                 /\ iniOut.err = "InvalidIniSectionError"
                 /\ \E i \in bad : iniOut.arg = m[i][1].name
                 /\ iniOut.written = <<>>

\* C14: lint and lint_path change nothing of the harness.  A step that ends
\* a lint or lint_path call on a constructed harness leaves the sandbox (its
\* directory, config file and styles tree) and every attribute of the
\* instance as they were, whether the call returned or raised; after any
\* number of calls they are what the constructor set, and the harness
\* accepts the next call.
C14_LintLeavesHarness ==
    /\ [][(pc = "ready" /\ IsLintCall') =>
            /\ disk' = disk
            /\ self' = self
            /\ finalizer' = finalizer
            /\ pc' = pc]_vars
    /\ [](IsLintCall =>
            /\ Usable
            /\ disk.exists /\ disk.hasIni /\ disk.styles
            /\ Cardinality(disk.files) = Len(ctor.styles.entries)
            /\ self.root = SandboxRoot
            /\ self.ini_path = IniPath
            /\ self.vale_bin = which(ctor.vale_bin)
            /\ self.stdin_flag_supported = probeLog[1]
            /\ self.stdin_ext = ctor.stdin_ext
            /\ self.default_min_level = ctor.min_alert_level)

\* C14 witness: a lint_path call failed with a ValeExecutionError and the
\* harness is as the constructor left it, ready for the next call.
C14_Witness ==
    /\ last.op = "lint_path"
    /\ last.out.raised = "ValeExecutionError"
    /\ Usable
    /\ disk.exists /\ disk.hasIni
    /\ self.stdin_ext = ctor.stdin_ext
    /\ self.default_min_level = ctor.min_alert_level

====
